---- MODULE Spec2Model ----
(***************************************************************************)
(* Model of lib/libcrypto/bn/bn_convert.c: the conversions between a       *)
(* BIGNUM's limbs and byte buffers, decimal and hexadecimal text, the MPI  *)
(* wire format and the BIO hex printer.                                    *)
(*                                                                         *)
(* A BIGNUM is the record [neg, top, dmax, d]; d is the limb array, least  *)
(* significant limb first, d[i+1] standing for the C expression d[i].      *)
(* Byte buffers and C strings are sequences of byte values 0..255.         *)
(* The limb is 16 bits wide here (BN_BYTES = 2), with the decimal chunk    *)
(* constants that belong to that width, so that every intermediate of the  *)
(* word arithmetic stays below 2^31.                                       *)
(***************************************************************************)
EXTENDS Integers, Sequences, FiniteSets, TLC

\* ---------------------------------------------------------------- bounds
MaxTop == 2
MaxPad == 2
MaxBytes == 2
MaxText == 2
MaxCalls == 2

\* ------------------------------------------------- platform parameters
BN_BYTES == 2
BN_BITS2 == 8 * BN_BYTES
BN_DEC_NUM == 4
SIZE_T_BITS == 24
UINT_BITS == 7

\* pointers: NULL, a BIGNUM record, or Buffer(s) for a byte array
NULL == [null |-> TRUE]
IsNull(p) == "null" \in DOMAIN p
Buffer(s) == [bytes |-> s]

big == "big"
little == "little"

\* a byte of a caller buffer that no call has written yet
UNWRITTEN == 0 - 1

Max(x, y) == IF x > y THEN x ELSE y

RECURSIVE Pow2(_)
Pow2(k) == IF k = 0 THEN 1 ELSE 2 * Pow2(k - 1)

Shr(x, k) == x \div Pow2(k)

RECURSIVE Pow10(_)
Pow10(k) == IF k = 0 THEN 1 ELSE 10 * Pow10(k - 1)

\* the largest power of ten that fits a limb, and the limb modulus
BN_DEC_CONV == Pow10(BN_DEC_NUM)
LimbMod == Pow2(BN_BITS2)

\* unsigned int and int of UINT_BITS bits
UnsignedMod == Pow2(UINT_BITS)
INT_MAX == Pow2(UINT_BITS - 1) - 1
ToUnsigned(x) == ((x % UnsignedMod) + UnsignedMod) % UnsignedMod
ToInt(u) == IF u > INT_MAX THEN u - UnsignedMod ELSE u

RECURSIVE BitAnd(_, _)
BitAnd(x, y) ==
    IF x = 0 \/ y = 0 THEN 0
    ELSE ((x % 2) * (y % 2)) + 2 * BitAnd(x \div 2, y \div 2)

RECURSIVE BitOr(_, _)
BitOr(x, y) ==
    IF x = 0 THEN y
    ELSE IF y = 0 THEN x
    ELSE Max(x % 2, y % 2) + 2 * BitOr(x \div 2, y \div 2)

\* x - y in size_t arithmetic
SizeSub(x, y) == ((x - y) + Pow2(SIZE_T_BITS)) % Pow2(SIZE_T_BITS)

Zeros(k) == [x \in 1..k |-> 0]

\* ------------------------------------------- limb storage (bn_lib.c)
BN_new == [neg |-> 0, top |-> 0, dmax |-> 0, d |-> <<>>]

BN_is_zero(a) == a.top = 0

BN_is_negative(a) == a.neg # 0

bn_correct_top(a) ==
    LET nz == {k \in 1..a.top : a.d[k] # 0}
    IN  [a EXCEPT !.top = IF nz = {} THEN 0
                          ELSE CHOOSE k \in nz : \A m \in nz : m <= k]

BN_set_negative(a, n) ==
    [a EXCEPT !.neg = IF n # 0 /\ ~BN_is_zero(a) THEN 1 ELSE 0]

BN_zero(a) == [a EXCEPT !.neg = 0, !.top = 0]

RECURSIVE BN_num_bits_word(_)
BN_num_bits_word(w) == IF w = 0 THEN 0 ELSE 1 + BN_num_bits_word(w \div 2)

BN_num_bits(a) ==
    IF a.top = 0 THEN 0
    ELSE (a.top - 1) * BN_BITS2 + BN_num_bits_word(a.d[a.top])

BN_num_bytes(a) == (BN_num_bits(a) + 7) \div 8

\* Capacity growth to at least `words` limbs; new limbs are zero.  The
\* growth is refused for a negative count, and when the allocator fails
\* (fail = "expand") and more limbs than allocated are asked for.
bn_wexpand_ok(a, words, fail) ==
    words >= 0 /\ ~(fail = "expand" /\ words > a.dmax)

bn_wexpand(a, words) ==
    IF words <= a.dmax THEN a
    ELSE [a EXCEPT !.dmax = words, !.d = a.d \o Zeros(words - a.dmax)]

BitsToWords(bits) == (bits + BN_BITS2 - 1) \div BN_BITS2

bn_expand_ok(a, bits, fail) == bn_wexpand_ok(a, BitsToWords(bits), fail)

bn_expand(a, bits) == bn_wexpand(a, BitsToWords(bits))

Significant(a) == SubSeq(a.d, 1, a.top)

\* ------------------------------------------------- bn2binpad (84-138)
bn2binpad_mask_all(j, atop) == Pow2(SIZE_T_BITS) - 1

bn2binpad_mask(j, atop) ==
    SizeSub(0, Shr(SizeSub(j, atop), SIZE_T_BITS - 1))

bn2binpad_step_always(i, lasti) == i + 1

bn2binpad_step(i, lasti) == i + Shr(SizeSub(i, lasti), SIZE_T_BITS - 1)

RECURSIVE bn2binpad_loop(_, _, _, _, _, _)
bn2binpad_loop(a, tolen, endianness, i, j, st) ==
    IF j >= tolen THEN st
    ELSE
      LET limb == i \div BN_BYTES
          l == IF limb < a.dmax THEN a.d[limb + 1] ELSE LimbMod - 1
          mask == bn2binpad_mask(j, a.top * BN_BYTES)
          val == BitAnd(Shr(l, 8 * (i % BN_BYTES)), mask) % 256
          pos == IF endianness = big THEN tolen - 1 - j ELSE j
      IN  bn2binpad_loop(a, tolen, endianness,
              bn2binpad_step(i, a.dmax * BN_BYTES - 1), j + 1,
              [to |-> [st.to EXCEPT ![pos + 1] = val],
               reads |-> Append(st.reads, limb),
               writes |-> Append(st.writes, pos)])

\* `to` is the caller's buffer before the call;  tolen = -1 asks for the
\* minimal length
bn2binpad(a, to, tolen0, endianness) ==
    LET n0 == BN_num_bytes(a)
        n == IF tolen0 # 0 - 1 /\ tolen0 < n0
             THEN BN_num_bytes(bn_correct_top(a)) ELSE n0
        tolen == IF tolen0 = 0 - 1 THEN n0 ELSE tolen0
        none == [to |-> to, reads |-> <<>>, writes |-> <<>>]
    IN  IF tolen < n
        THEN [ret |-> 0 - 1] @@ none
        ELSE IF a.dmax * BN_BYTES = 0
        THEN [ret |-> tolen, to |-> [k \in 1..Len(to) |->
                                        IF k <= tolen THEN 0 ELSE to[k]],
              reads |-> <<>>, writes |-> [k \in 1..tolen |-> k - 1]]
        ELSE [ret |-> tolen] @@ bn2binpad_loop(a, tolen, endianness, 0, 0, none)

BN_bn2bin(a, to) == bn2binpad(a, to, 0 - 1, big)

BN_bn2binpad(a, to, tolen) ==
    IF tolen < 0
    THEN [ret |-> 0 - 1, to |-> to, reads |-> <<>>, writes |-> <<>>]
    ELSE bn2binpad(a, to, tolen, big)

BN_bn2lebinpad(a, to, tolen) ==
    IF tolen < 0
    THEN [ret |-> 0 - 1, to |-> to, reads |-> <<>>, writes |-> <<>>]
    ELSE bn2binpad(a, to, tolen, little)

\* ------------------------------------------------ byte decode (154-256)
\* A decode call yields [ret, bn, live, reads]: the value returned, the
\* caller's instance after the call (NULL when the caller holds none), the
\* number of instances allocated after the call, and the offsets of the
\* input bytes the call read.

\* *(s + k): a read outside the buffer yields the byte `wild`
ReadByte(s, k, wild) == IF k >= 0 /\ k < Len(s) THEN s[k + 1] ELSE wild

Live(p) == IF IsNull(p) THEN 0 ELSE 1

\* the number of bytes held by the most significant limb, minus one
bin2bn_m_zero(n) == 0

bin2bn_m(n) == (n - 1) % BN_BYTES

\* while (n--) { l = (l << 8) | *(s++); if (m-- == 0) { d[--i] = l; ... } }
\* The iterations up to the next store are bin2bn_limb: l after the m + 1
\* bytes from offset k on.  bin2bn_loop is the limb array after the loop:
\* the first store takes m + 1 bytes into d[i - 1], every later one
\* BN_BYTES bytes into the limb below (n = m + 1 + (i - 1) * BN_BYTES).
RECURSIVE bin2bn_limb(_, _, _, _, _)
bin2bn_limb(s, wild, k, m, l) ==
    LET l2 == BitOr((l * 256) % LimbMod, ReadByte(s, k, wild))
    IN  IF m = 0 THEN l2 ELSE bin2bn_limb(s, wild, k + 1, m - 1, l2)

bin2bn_loop(s, wild, k, i, m, r) ==
    [r EXCEPT !.d = [x \in 1..Len(r.d) |->
        IF x > i THEN r.d[x]
        ELSE IF x = i THEN bin2bn_limb(s, wild, k, m, 0)
        ELSE bin2bn_limb(s, wild, k + (m + 1) + (i - 1 - x) * BN_BYTES,
                         BN_BYTES - 1, 0)]]

BN_bin2bn(s, len, ret, fail, wild) ==
    IF len < 0
    THEN [ret |-> NULL, bn |-> ret, live |-> Live(ret), reads |-> {}]
    ELSE IF IsNull(ret) /\ fail = "new"
    THEN [ret |-> NULL, bn |-> NULL, live |-> 0, reads |-> {}]
    ELSE
      LET r0 == IF IsNull(ret) THEN BN_new ELSE ret
          n == ToUnsigned(len)
          i == ((n - 1) \div BN_BYTES) + 1
          m == bin2bn_m(n)
      IN  IF n = 0
          THEN LET r1 == [r0 EXCEPT !.top = 0]
               IN  [ret |-> r1, bn |-> r1, live |-> 1, reads |-> {}]
          ELSE IF ~bn_wexpand_ok(r0, ToInt(i), fail)
          THEN [ret |-> NULL, bn |-> ret, live |-> Live(ret), reads |-> {}]
          ELSE
            LET r1 == [bn_wexpand(r0, ToInt(i)) EXCEPT !.top = i, !.neg = 0]
                r2 == bn_correct_top(bin2bn_loop(s, wild, 0, i, m, r1))
            IN  [ret |-> r2, bn |-> r2, live |-> 1,
                 reads |-> {k \in 0..(n - 1) : TRUE}]

\* for (; len > 0 && s[-1] == 0; s--, len--) of BN_lebin2bn; s points
\* past the last byte
RECURSIVE lebin2bn_trim(_, _)
lebin2bn_trim(s, len) ==
    IF len > 0 /\ s[len] = 0 THEN lebin2bn_trim(s, len - 1) ELSE len

\* while (n-- > 0) { s--; l = (l << 8) | *s; if (m-- == 0) { ... } };
\* p is the offset s points at.  As for BN_bin2bn, lebin2bn_limb is the run
\* of iterations up to the next store and lebin2bn_loop the limb array
\* after the loop.
RECURSIVE lebin2bn_limb(_, _, _, _, _)
lebin2bn_limb(s, wild, p, m, l) ==
    LET l2 == BitOr((l * 256) % LimbMod, ReadByte(s, p - 1, wild))
    IN  IF m = 0 THEN l2 ELSE lebin2bn_limb(s, wild, p - 1, m - 1, l2)

lebin2bn_loop(s, wild, p, i, m, r) ==
    [r EXCEPT !.d = [x \in 1..Len(r.d) |->
        IF x > i THEN r.d[x]
        ELSE IF x = i THEN lebin2bn_limb(s, wild, p, m, 0)
        ELSE lebin2bn_limb(s, wild, p - (m + 1) - (i - 1 - x) * BN_BYTES,
                           BN_BYTES - 1, 0)]]

BN_lebin2bn(s, len0, ret, fail, wild) ==
    IF IsNull(ret) /\ fail = "new"
    THEN [ret |-> NULL, bn |-> NULL, live |-> 0, reads |-> {}]
    ELSE
      LET r0 == IF IsNull(ret) THEN BN_new ELSE ret
          len == lebin2bn_trim(s, len0)
          \* the bytes the trimming loop looked at
          seen == IF len0 > 0
                  THEN {k \in 0..(len0 - 1) : k >= len - 1}
                  ELSE {}
          n == ToUnsigned(len)
          i == ((n - 1) \div BN_BYTES) + 1
          m == (n - 1) % BN_BYTES
      IN  IF n = 0
          THEN LET r1 == [r0 EXCEPT !.top = 0]
               IN  [ret |-> r1, bn |-> r1, live |-> 1, reads |-> seen]
          ELSE IF ~bn_wexpand_ok(r0, ToInt(i), fail)
          THEN [ret |-> NULL, bn |-> ret, live |-> Live(ret), reads |-> seen]
          ELSE
            LET r1 == [bn_wexpand(r0, ToInt(i)) EXCEPT !.top = i, !.neg = 0]
                r2 == bn_correct_top(
                          lebin2bn_loop(s, wild, len, i, m, r1))
            IN  [ret |-> r2, bn |-> r2, live |-> 1,
                 reads |-> seen \cup {k \in (len - n)..(len - 1) : TRUE}]

\* ------------------------------------ word arithmetic (bn_word.c, bn_lib.c)
\* Each yields [ok, bn]; ok is FALSE when the capacity growth it needs is
\* refused.
RECURSIVE bn_mul_words(_, _, _, _, _)
bn_mul_words(d, k, top, w, carry) ==
    IF k > top THEN [d |-> d, carry |-> carry]
    ELSE LET t == d[k] * w + carry
         IN  bn_mul_words([d EXCEPT ![k] = t % LimbMod], k + 1, top, w,
                          t \div LimbMod)

BN_mul_word(a, w, fail) ==
    IF a.top = 0 THEN [ok |-> TRUE, bn |-> a]
    ELSE IF w = 0 THEN [ok |-> TRUE, bn |-> BN_zero(a)]
    ELSE
      LET m == bn_mul_words(a.d, 1, a.top, w, 0)
          a1 == [a EXCEPT !.d = m.d]
      IN  IF m.carry = 0 THEN [ok |-> TRUE, bn |-> a1]
          ELSE IF ~bn_wexpand_ok(a1, a.top + 1, fail)
          THEN [ok |-> FALSE, bn |-> a1]
          ELSE [ok |-> TRUE,
                bn |-> [bn_wexpand(a1, a.top + 1) EXCEPT
                           !.d[a.top + 1] = m.carry, !.top = a.top + 1]]

RECURSIVE bn_add_words(_, _, _, _)
bn_add_words(d, k, top, w) ==
    IF w = 0 \/ k > top THEN [d |-> d, carry |-> w]
    ELSE LET l == (d[k] + w) % LimbMod
         IN  bn_add_words([d EXCEPT ![k] = l], k + 1, top,
                          IF w > l THEN 1 ELSE 0)

BN_add_word(a, w, fail) ==
    IF w = 0 THEN [ok |-> TRUE, bn |-> a]
    ELSE IF BN_is_zero(a)
    THEN IF ~bn_wexpand_ok(a, 1, fail) THEN [ok |-> FALSE, bn |-> a]
         ELSE [ok |-> TRUE,
               bn |-> [bn_wexpand(a, 1) EXCEPT !.neg = 0, !.d[1] = w, !.top = 1]]
    ELSE
      LET s == bn_add_words(a.d, 1, a.top, w)
          a1 == [a EXCEPT !.d = s.d]
      IN  IF s.carry = 0 THEN [ok |-> TRUE, bn |-> a1]
          ELSE IF ~bn_wexpand_ok(a1, a.top + 1, fail)
          THEN [ok |-> FALSE, bn |-> a1]
          ELSE [ok |-> TRUE,
                bn |-> [bn_wexpand(a1, a.top + 1) EXCEPT
                           !.d[a.top + 1] = s.carry, !.top = a.top + 1]]

\* long division by one word, most significant limb first: [rem, bn]
RECURSIVE bn_div_words(_, _, _, _)
bn_div_words(d, k, w, rem) ==
    IF k = 0 THEN [d |-> d, rem |-> rem]
    ELSE LET cur == rem * LimbMod + d[k]
         IN  bn_div_words([d EXCEPT ![k] = cur \div w], k - 1, w, cur % w)

BN_div_word(a, w) ==
    LET q == bn_div_words(a.d, a.top, w, 0)
        a1 == bn_correct_top([a EXCEPT !.d = q.d])
    IN  [rem |-> q.rem, bn |-> BN_set_negative(a1, a1.neg)]

BN_clear_bit(a, n) ==
    LET i == n \div BN_BITS2
        j == n % BN_BITS2
    IN  IF n < 0 \/ a.top <= i THEN a
        ELSE LET w == a.d[i + 1]
                 c == IF Shr(w, j) % 2 = 1 THEN w - Pow2(j) ELSE w
                 a1 == bn_correct_top([a EXCEPT !.d[i + 1] = c])
             IN  BN_set_negative(a1, a1.neg)

\* ------------------------------------------------------ C strings, CBS
Ascii == [minus |-> 45, zero |-> 48, nine |-> 57, A |-> 65, F |-> 70,
          X |-> 88, a |-> 97, f |-> 102, x |-> 120]

isdigit(v) == v >= Ascii.zero /\ v <= Ascii.nine

isxdigit(v) ==
    \/ isdigit(v)
    \/ (v >= Ascii.a /\ v <= Ascii.f)
    \/ (v >= Ascii.A /\ v <= Ascii.F)

\* the bytes before the terminator; a buffer without a zero byte is
\* followed by its terminator
RECURSIVE strlen(_)
strlen(s) == IF s = <<>> \/ Head(s) = 0 THEN 0 ELSE 1 + strlen(Tail(s))

CString(s) == SubSeq(s, 1, strlen(s))

CBS_skip(cbs, k) == SubSeq(cbs, k + 1, Len(cbs))

\* the scans "to find the last digit" of bn_dec2bn_cbs and bn_hex2bn_cbs
RECURSIVE dec_digits(_)
dec_digits(cbs) ==
    IF cbs = <<>> \/ ~isdigit(Head(cbs)) THEN 0 ELSE 1 + dec_digits(Tail(cbs))

RECURSIVE hex_digits_run(_)
hex_digits_run(cbs) ==
    IF cbs = <<>> \/ ~isxdigit(Head(cbs)) THEN 0
    ELSE 1 + hex_digits_run(Tail(cbs))

\* --------------------------------------------- decimal decode (387-489)
\* A text decode call yields [ret, bn, live]: the count returned, *bnp
\* after the call and the number of instances allocated after it.  `probe`
\* says that bnp itself is NULL; `slot` is *bnp.

\* err: if (bnp != NULL && *bnp == NULL) BN_free(bn); return 0;
\* a caller's instance is the one the call worked on
cbs_err(slot, bn) ==
    [ret |-> 0, bn |-> IF IsNull(slot) THEN NULL ELSE bn, live |-> Live(slot)]

\* the digits of the first, possibly partial, chunk
dec2bn_first_full(digits) == BN_DEC_NUM

dec2bn_first(digits) ==
    IF digits % BN_DEC_NUM = 0 THEN BN_DEC_NUM ELSE digits % BN_DEC_NUM

RECURSIVE dec2bn_loop(_, _, _, _, _, _)
dec2bn_loop(cbs, digits, d, w, bn, fail) ==
    IF digits = 0 THEN [ok |-> TRUE, bn |-> bn]
    ELSE IF cbs = <<>> \/ ~isdigit(Head(cbs)) THEN [ok |-> FALSE, bn |-> bn]
    ELSE
      LET w2 == (w * 10 + (Head(cbs) - Ascii.zero)) % LimbMod
      IN  IF d - 1 = 0
          THEN LET mul == BN_mul_word(bn, BN_DEC_CONV, fail)
                   add == BN_add_word(mul.bn, w2, fail)
               IN  IF ~mul.ok THEN [ok |-> FALSE, bn |-> mul.bn]
                   ELSE IF ~add.ok THEN [ok |-> FALSE, bn |-> add.bn]
                   ELSE dec2bn_loop(Tail(cbs), digits - 1, BN_DEC_NUM, 0,
                                    add.bn, fail)
          ELSE dec2bn_loop(Tail(cbs), digits - 1, d - 1, w2, bn, fail)

bn_dec2bn_cbs(probe, slot, cbs0, fail) ==
    IF cbs0 = <<>> THEN cbs_err(slot, slot)
    ELSE
      LET neg == IF Head(cbs0) = Ascii.minus THEN 1 ELSE 0
          cbs == CBS_skip(cbs0, neg)
          digits == dec_digits(cbs)
          num == digits + neg
      IN  IF digits > INT_MAX \div 4 THEN cbs_err(slot, slot)
          ELSE IF probe THEN [ret |-> num, bn |-> slot, live |-> Live(slot)]
          ELSE IF IsNull(slot) /\ fail = "new" THEN cbs_err(slot, slot)
          ELSE
            LET bn0 == IF IsNull(slot) THEN BN_new ELSE slot
            IN  IF ~bn_expand_ok(bn0, digits * 4, fail)
                THEN cbs_err(slot, bn0)
                ELSE
                  LET r == dec2bn_loop(cbs, digits, dec2bn_first(digits), 0,
                                       bn_expand(bn0, digits * 4), fail)
                      bn == BN_set_negative(bn_correct_top(r.bn), neg)
                  IN  IF ~r.ok THEN cbs_err(slot, r.bn)
                      ELSE [ret |-> num, bn |-> bn, live |-> 1]

\* if (bnp != NULL && *bnp != NULL) BN_zero(*bnp);
ZeroSlot(probe, slot) ==
    IF ~probe /\ ~IsNull(slot) THEN BN_zero(slot) ELSE slot

BN_dec2bn(probe, slot, s, fail) ==
    LET z == ZeroSlot(probe, slot)
    IN  IF strlen(s) = 0 THEN [ret |-> 0, bn |-> z, live |-> Live(slot)]
        ELSE bn_dec2bn_cbs(probe, z, CString(s), fail)

\* ------------------------------------------------- hex decode (536-642)
HexVal(v) ==
    IF v >= Ascii.zero /\ v <= Ascii.nine THEN v - Ascii.zero
    ELSE IF v >= Ascii.a /\ v <= Ascii.f THEN v - (Ascii.a - 10)
    ELSE IF v >= Ascii.A /\ v <= Ascii.F THEN v - (Ascii.A - 10)
    ELSE 0 - 1

\* works backwards from the least significant digit; i limbs are stored
RECURSIVE hex2bn_loop(_, _, _, _, _, _)
hex2bn_loop(cbs, digits, b, i, w, bn) ==
    IF digits = 0 THEN [ok |-> TRUE, bn |-> bn, i |-> i]
    ELSE IF cbs = <<>> \/ HexVal(cbs[Len(cbs)]) < 0
    THEN [ok |-> FALSE, bn |-> bn, i |-> i]
    ELSE
      LET v == HexVal(cbs[Len(cbs)])
          w2 == BitOr(w, (v * Pow2(BN_BITS2 - b)) % LimbMod)
          rest == SubSeq(cbs, 1, Len(cbs) - 1)
      IN  IF b - 4 = 0 \/ digits - 1 = 0
          THEN hex2bn_loop(rest, digits - 1, BN_BITS2, i + 1, 0,
                           [bn EXCEPT !.d[i + 1] = w2])
          ELSE hex2bn_loop(rest, digits - 1, b - 4, i, w2, bn)

bn_hex2bn_cbs(probe, slot, cbs0, fail) ==
    IF cbs0 = <<>> THEN cbs_err(slot, slot)
    ELSE
      LET neg == IF Head(cbs0) = Ascii.minus THEN 1 ELSE 0
          cbs == CBS_skip(cbs0, neg)
          digits == hex_digits_run(cbs)
          num == digits + neg
      IN  IF digits > INT_MAX \div 4 THEN cbs_err(slot, slot)
          ELSE IF probe THEN [ret |-> num, bn |-> slot, live |-> Live(slot)]
          ELSE IF IsNull(slot) /\ fail = "new" THEN cbs_err(slot, slot)
          ELSE
            LET bn0 == IF IsNull(slot) THEN BN_new ELSE slot
            IN  IF ~bn_expand_ok(bn0, digits * 4, fail)
                THEN cbs_err(slot, bn0)
                ELSE
                  LET r == hex2bn_loop(SubSeq(cbs, 1, digits), digits,
                                       BN_BITS2, 0, 0,
                                       bn_expand(bn0, digits * 4))
                      bn == BN_set_negative(
                                bn_correct_top([r.bn EXCEPT !.top = r.i]), neg)
                  IN  IF ~r.ok THEN cbs_err(slot, r.bn)
                      ELSE [ret |-> num, bn |-> bn, live |-> 1]

BN_hex2bn(probe, slot, s, fail) ==
    LET z == ZeroSlot(probe, slot)
    IN  IF strlen(s) = 0 THEN [ret |-> 0, bn |-> z, live |-> Live(slot)]
        ELSE bn_hex2bn_cbs(probe, z, CString(s), fail)

\* ------------------------------------------------ ASCII dispatch (258-307)
\* the text after the sign starts with 0x or 0X
asc2bn_is_hex(cbs) ==
    /\ Len(cbs) >= 2
    /\ cbs[1] = Ascii.zero
    /\ cbs[2] \in {Ascii.X, Ascii.x}

BN_asc2bn(slot, s, fail) ==
    LET z == ZeroSlot(FALSE, slot)
    IN  IF strlen(s) = 0 THEN [ret |-> 0, bn |-> z, live |-> Live(slot)]
        ELSE
          LET neg == IF Head(s) = Ascii.minus THEN 1 ELSE 0
              cbs == CBS_skip(CString(s), neg)
              sub == IF asc2bn_is_hex(cbs)
                     THEN bn_hex2bn_cbs(FALSE, z, CBS_skip(cbs, 2), fail)
                     ELSE bn_dec2bn_cbs(FALSE, z, cbs, fail)
          IN  IF sub.ret = 0 THEN sub
              ELSE [ret |-> 1, bn |-> BN_set_negative(sub.bn, neg),
                    live |-> sub.live]

\* ---------------------------------------------------- MPI (644-714)
mpi_ext_never(bits) == 0

\* ext = ((bits & 0x07) == 0) when bits > 0
mpi_ext(bits) == IF bits > 0 /\ bits % 8 = 0 THEN 1 ELSE 0

\* d is the caller's buffer, or NULL for the size query: [ret, d]
BN_bn2mpi(a, d) ==
    LET bits == BN_num_bits(a)
        num == (bits + 7) \div 8
        ext == mpi_ext(bits)
        l == num + ext
    IN  IF IsNull(d) THEN [ret |-> num + 4 + ext, d |-> d]
        ELSE
          LET d1 == [k \in 1..Len(d.bytes) |->
                       IF k = 1 THEN Shr(l, 24) % 256
                       ELSE IF k = 2 THEN Shr(l, 16) % 256
                       ELSE IF k = 3 THEN Shr(l, 8) % 256
                       ELSE IF k = 4 THEN l % 256
                       ELSE IF k = 5 /\ ext = 1 THEN 0
                       ELSE d.bytes[k]]
              bin == BN_bn2bin(a, SubSeq(d1, 5 + ext, Len(d1)))
              d2 == SubSeq(d1, 1, 4 + ext) \o bin.to
              d3 == IF a.neg # 0 /\ Len(d2) >= 5
                    THEN [d2 EXCEPT ![5] = BitOr(d2[5], 128)]
                    ELSE d2
          IN  [ret |-> bin.ret + 4 + ext, d |-> Buffer(d3)]

BN_mpi2bn(d, n, ain, fail, wild) ==
    LET keep == [ret |-> NULL, bn |-> ain, live |-> Live(ain)]
    IN  IF n < 4 THEN keep @@ [reads |-> {}]
        ELSE
          LET len == d[1] * Pow2(24) + d[2] * Pow2(16) + d[3] * 256 + d[4]
              hdr == 0..3
          IN  IF len + 4 # n THEN keep @@ [reads |-> hdr]
              ELSE IF IsNull(ain) /\ fail = "new" THEN keep @@ [reads |-> hdr]
              ELSE
                LET a == IF IsNull(ain) THEN BN_new ELSE ain
                IN  IF len = 0
                    THEN LET a1 == [a EXCEPT !.neg = 0, !.top = 0]
                         IN  [ret |-> a1, bn |-> a1, live |-> 1, reads |-> hdr]
                    ELSE
                      LET neg == IF d[5] >= 128 THEN 1 ELSE 0
                          bin == BN_bin2bn(SubSeq(d, 5, Len(d)), len, a,
                                           fail, wild)
                          rd == hdr \cup {k + 4 : k \in bin.reads} \cup {4}
                          a1 == BN_set_negative(bin.ret, neg)
                          a2 == IF neg = 1
                                THEN BN_clear_bit(a1, BN_num_bits(a1) - 1)
                                ELSE a1
                      IN  IF IsNull(bin.ret) THEN keep @@ [reads |-> rd]
                          ELSE [ret |-> a2, bn |-> a2, live |-> 1,
                                reads |-> rd]

\* ----------------------------------------------- decimal encode (309-385)
\* for (i = 0; i < BN_DEC_NUM; i++) { v = w % 10; add '0' + v; w /= 10; }
RECURSIVE bn2dec_chunk(_, _)
bn2dec_chunk(w, i) ==
    IF i = BN_DEC_NUM THEN <<>>
    ELSE <<Ascii.zero + (w % 10)>> \o bn2dec_chunk(w \div 10, i + 1)

\* while (!BN_is_zero(tmp)): the reversed, zero-padded digits
RECURSIVE bn2dec_digits(_)
bn2dec_digits(tmp) ==
    IF BN_is_zero(tmp) THEN <<>>
    ELSE LET q == BN_div_word(tmp, BN_DEC_CONV)
         IN  bn2dec_chunk(q.rem, 0) \o bn2dec_digits(q.bn)

\* reverse the digits and trim the leading zeroes
RECURSIVE bn2dec_reverse(_, _)
bn2dec_reverse(data, started) ==
    IF data = <<>> THEN <<>>
    ELSE LET c == data[Len(data)]
             rest == SubSeq(data, 1, Len(data) - 1)
         IN  IF ~started /\ c = Ascii.zero THEN bn2dec_reverse(rest, FALSE)
             ELSE <<c>> \o bn2dec_reverse(rest, TRUE)

\* the string returned, terminator included, or NULL when the builder
\* or the copy cannot be allocated (fail = "alloc")
BN_bn2dec(bn, fail) ==
    IF fail = "alloc" THEN NULL
    ELSE
      LET data == bn2dec_digits(bn)
          sign == IF BN_is_negative(bn) THEN <<Ascii.minus>> ELSE <<>>
          body == bn2dec_reverse(data, FALSE)
      IN  Buffer(sign \o (IF body = <<>> THEN <<Ascii.zero>> ELSE body)
                      \o <<0>>)

\* --------------------------------------------------- hex encode (491-534)
hex_digits == <<48, 49, 50, 51, 52, 53, 54, 55, 56, 57, 65, 66, 67, 68, 69, 70>>

\* the bytes of limbs i, i-1, .. 0 from bit j downwards
RECURSIVE bn2hex_loop(_, _, _, _)
bn2hex_loop(bn, i, j, started) ==
    IF i < 0 THEN <<>>
    ELSE IF j < 0 THEN bn2hex_loop(bn, i - 1, BN_BITS2 - 8, started)
    ELSE
      LET v == Shr(bn.d[i + 1], j) % 256
      IN  IF ~started /\ v = 0 THEN bn2hex_loop(bn, i, j - 8, FALSE)
          ELSE <<hex_digits[Shr(v, 4) + 1], hex_digits[(v % 16) + 1]>>
                   \o bn2hex_loop(bn, i, j - 8, TRUE)

BN_bn2hex(bn, fail) ==
    IF fail = "alloc" THEN NULL
    ELSE Buffer((IF BN_is_negative(bn) THEN <<Ascii.minus>> ELSE <<>>)
                \o (IF BN_is_zero(bn) THEN <<Ascii.zero>> ELSE <<>>)
                \o bn2hex_loop(bn, bn.top - 1, BN_BITS2 - 8, FALSE)
                \o <<0>>)

\* ------------------------------------------------------ BN_print (731-756)
\* The sink accepts `room` one-byte writes and fails the next one.  A
\* printing state is [out, room, ok]: the bytes the sink took, the writes
\* it still accepts, and whether every write so far succeeded.
BIO_write(st, c) ==
    IF ~st.ok THEN st
    ELSE IF st.room = 0 THEN [st EXCEPT !.ok = FALSE]
    ELSE [st EXCEPT !.out = Append(st.out, c), !.room = st.room - 1]

print_keep_all(z, v) == TRUE

\* strip leading zeros: if (z || (v != 0))
print_keep(z, v) == z \/ v # 0

RECURSIVE print_loop(_, _, _, _, _)
print_loop(a, i, j, z, st) ==
    IF ~st.ok \/ i < 0 THEN st
    ELSE IF j < 0 THEN print_loop(a, i - 1, BN_BITS2 - 4, z, st)
    ELSE
      LET v == Shr(a.d[i + 1], j) % 16
      IN  IF print_keep(z, v)
          THEN print_loop(a, i, j - 4, TRUE, BIO_write(st, hex_digits[v + 1]))
          ELSE print_loop(a, i, j - 4, z, st)

BN_print(room, a) ==
    LET s0 == [out |-> <<>>, room |-> room, ok |-> TRUE]
        s1 == IF a.neg # 0 THEN BIO_write(s0, Ascii.minus) ELSE s0
        s2 == IF s1.ok /\ BN_is_zero(a) THEN BIO_write(s1, Ascii.zero) ELSE s1
        s3 == print_loop(a, a.top - 1, BN_BITS2 - 4, FALSE, s2)
    IN  [ret |-> IF s3.ok THEN 1 ELSE 0, out |-> s3.out]

\* ================================================================ state
\* a      the value handed to the encoders
\* buf    the byte buffer or C string last written by an encoder, or the
\*        input the caller supplies to the decoders
\* made   the encoder that produced buf ("caller" for a caller's input)
\* bnp    the caller's instance (NULL while the caller holds none)
\* was    what the last call did to the caller's instance: "null" when
\*        the caller held none, "same" when the call left it as it was,
\*        "changed" otherwise
\* op     the last call; arg its length argument; env the allocation
\*        failure that changed its outcome ("none" when there was none)
\* ret    the value the last call returned
\* live   the number of allocated instances
\* reads  the input offsets the last decode call read
\* acc    the limb indices read and output positions written by the last
\*        bn2binpad emission loop
\* sink   the bytes the output sink took from the last BN_print
\* calls  the number of decode calls made on the caller's input
VARIABLES a, buf, made, bnp, was, op, arg, env, ret, live, reads, acc, sink,
          calls

vars == <<a, buf, made, bnp, was, op, arg, env, ret, live, reads, acc, sink,
          calls>>

NoAcc == [reads |-> <<>>, writes |-> <<>>]

\* ------------------------------------------------------ input domains
TopLimbs == {1, 128, 256, 32768, 65535}
LowLimbs == {0, 32769}
SpareLimbs == {0, 65535}

\* the limb arrays of the normalized magnitudes of `top` limbs
RECURSIVE Magnitudes(_)
Magnitudes(top) ==
    IF top = 0 THEN {<<>>}
    ELSE IF top = 1 THEN {<<w>> : w \in TopLimbs}
    ELSE {<<w>> \o m : w \in LowLimbs, m \in Magnitudes(top - 1)}

\* normalized values: zero is non-negative, the top limb is nonzero, and
\* an allocated limb beyond top holds whatever an earlier value left there
Values ==
    UNION {
      {[neg |-> s, top |-> t, dmax |-> t, d |-> m] :
           s \in (IF t = 0 THEN {0} ELSE {0, 1}), m \in Magnitudes(t)}
      \cup
      {[neg |-> s, top |-> t, dmax |-> t + 1, d |-> Append(m, g)] :
           s \in (IF t = 0 THEN {0} ELSE {0, 1}), m \in Magnitudes(t),
           g \in SpareLimbs}
      : t \in 0..MaxTop}

Fresh(k) == [x \in 1..k |-> UNWRITTEN]

Unlimited == 1000

\* ========================================================== encode calls
Init ==
    /\ a \in Values
    /\ buf = <<>>
    /\ made = "none"
    /\ bnp = NULL
    /\ was = "null"
    /\ op = "init"
    /\ arg = 0
    /\ env = "none"
    /\ ret = 0
    /\ live = 0
    /\ reads = {}
    /\ acc = NoAcc
    /\ sink = <<>>
    /\ calls = 0

\* an encoder call, made while the caller holds no buffer
Encoded(name, o, len) ==
    /\ op = "init"
    /\ op' = name
    /\ arg' = len
    /\ ret' = o.ret
    /\ buf' = o.to
    /\ acc' = [reads |-> o.reads, writes |-> o.writes]
    /\ env' = "none"
    /\ bnp' = NULL
    /\ was' = "null"
    /\ live' = 0
    /\ reads' = {}
    /\ sink' = <<>>
    /\ UNCHANGED <<a, calls>>

Call_BN_bn2bin ==
    /\ made' = "BN_bn2bin"
    /\ Encoded("BN_bn2bin", BN_bn2bin(a, Fresh(BN_num_bytes(a))), 0 - 1)

Call_BN_bn2binpad ==
    \E L \in (0 - 1)..(BN_num_bytes(a) + MaxPad) :
        LET o == BN_bn2binpad(a, Fresh(Max(L, 0)), L)
        IN  /\ made' = IF o.ret >= 0 THEN "BN_bn2binpad" ELSE "none"
            /\ Encoded("BN_bn2binpad", o, L)

Call_BN_bn2lebinpad ==
    \E L \in (0 - 1)..(BN_num_bytes(a) + MaxPad) :
        LET o == BN_bn2lebinpad(a, Fresh(Max(L, 0)), L)
        IN  /\ made' = IF o.ret >= 0 THEN "BN_bn2lebinpad" ELSE "none"
            /\ Encoded("BN_bn2lebinpad", o, L)

\* BN_bn2mpi: the size query (d == NULL), or the call with a buffer of the
\* size the query gave
Call_BN_bn2mpi ==
    \E query \in BOOLEAN :
        LET size == BN_bn2mpi(a, NULL).ret
            o == IF query THEN BN_bn2mpi(a, NULL)
                 ELSE BN_bn2mpi(a, Buffer(Fresh(size)))
        IN  /\ made' = IF query THEN "none" ELSE "BN_bn2mpi"
            /\ Encoded("BN_bn2mpi",
                       [ret |-> o.ret, to |-> IF query THEN <<>> ELSE o.d.bytes,
                        reads |-> <<>>, writes |-> <<>>],
                       IF query THEN 0 ELSE size)

\* a text encoder: the string returned, or NULL
Texted(name, s, fail) ==
    /\ op = "init"
    /\ made' = IF IsNull(s) THEN "none" ELSE name
    /\ op' = name
    /\ arg' = 0
    /\ ret' = IF IsNull(s) THEN 0 ELSE 1
    /\ buf' = IF IsNull(s) THEN <<>> ELSE s.bytes
    /\ acc' = NoAcc
    /\ env' = fail
    /\ bnp' = NULL
    /\ was' = "null"
    /\ live' = 0
    /\ reads' = {}
    /\ sink' = <<>>
    /\ UNCHANGED <<a, calls>>

Call_BN_bn2dec ==
    \E fail \in {"none", "alloc"} : Texted("BN_bn2dec", BN_bn2dec(a, fail), fail)

Call_BN_bn2hex ==
    \E fail \in {"none", "alloc"} : Texted("BN_bn2hex", BN_bn2hex(a, fail), fail)

\* BN_print of the value whose BN_bn2hex text is in buf
Call_BN_print ==
    /\ made = "BN_bn2hex"
    /\ op = "BN_bn2hex"
    /\ \E room \in {0, 1, 2, Unlimited} :
           LET o == BN_print(room, a)
           IN  /\ op' = "BN_print"
               /\ arg' = room
               /\ ret' = o.ret
               /\ sink' = o.out
    /\ env' = "none"
    /\ reads' = {}
    /\ acc' = NoAcc
    /\ UNCHANGED <<a, buf, made, bnp, was, live, calls>>

\* ============================================= decode of what was encoded
\* a decode call on buf with the caller's instance bnp: o is its outcome
\* and ok its outcome had every allocation succeeded
Decoded(name, o, ok, len, fail) ==
    /\ op' = name
    /\ arg' = len
    /\ env' = IF o = ok THEN "none" ELSE fail
    /\ ret' = o.ret
    /\ bnp' = o.bn
    /\ was' = IF IsNull(bnp) THEN "null"
              ELSE IF o.bn = bnp THEN "same" ELSE "changed"
    /\ live' = o.live
    /\ acc' = NoAcc
    /\ sink' = <<>>
    /\ UNCHANGED <<a, buf, made>>

Fails == {"none", "new", "expand"}

Back_BN_bin2bn ==
    /\ UNCHANGED calls
    /\ made \in {"BN_bn2bin", "BN_bn2binpad"}
    /\ IsNull(bnp)
    /\ \E fail \in Fails :
           LET o == BN_bin2bn(buf, Len(buf), NULL, fail, 0)
               ok == BN_bin2bn(buf, Len(buf), NULL, "none", 0)
           IN  reads' = o.reads /\ Decoded("BN_bin2bn", o, ok, Len(buf), fail)

Back_BN_lebin2bn ==
    /\ UNCHANGED calls
    /\ made = "BN_bn2lebinpad"
    /\ IsNull(bnp)
    /\ \E fail \in Fails :
           LET o == BN_lebin2bn(buf, Len(buf), NULL, fail, 0)
               ok == BN_lebin2bn(buf, Len(buf), NULL, "none", 0)
           IN  reads' = o.reads /\ Decoded("BN_lebin2bn", o, ok, Len(buf), fail)

Back_BN_mpi2bn ==
    /\ UNCHANGED calls
    /\ made = "BN_bn2mpi"
    /\ IsNull(bnp)
    /\ \E fail \in Fails :
           LET o == BN_mpi2bn(buf, Len(buf), NULL, fail, 0)
               ok == BN_mpi2bn(buf, Len(buf), NULL, "none", 0)
           IN  reads' = o.reads /\ Decoded("BN_mpi2bn", o, ok, Len(buf), fail)

Back_BN_dec2bn ==
    /\ UNCHANGED calls
    /\ made = "BN_bn2dec"
    /\ IsNull(bnp)
    /\ \E fail \in Fails :
           /\ reads' = 0..strlen(buf)
           /\ Decoded("BN_dec2bn", BN_dec2bn(FALSE, NULL, buf, fail),
                      BN_dec2bn(FALSE, NULL, buf, "none"), 0, fail)

Back_BN_hex2bn ==
    /\ UNCHANGED calls
    /\ made = "BN_bn2hex"
    /\ IsNull(bnp)
    /\ \E fail \in Fails :
           /\ reads' = 0..strlen(buf)
           /\ Decoded("BN_hex2bn", BN_hex2bn(FALSE, NULL, buf, fail),
                      BN_hex2bn(FALSE, NULL, buf, "none"), 0, fail)

\* the caller frees the buffer and the decoded instance
Release ==
    /\ op # "init"
    /\ buf' = <<>>
    /\ made' = "none"
    /\ bnp' = NULL
    /\ was' = "null"
    /\ op' = "init"
    /\ arg' = 0
    /\ env' = "none"
    /\ ret' = 0
    /\ live' = 0
    /\ reads' = {}
    /\ acc' = NoAcc
    /\ sink' = <<>>
    /\ UNCHANGED <<a, calls>>

Next ==
    \/ Release
    \/ Call_BN_bn2bin
    \/ Call_BN_bn2binpad
    \/ Call_BN_bn2lebinpad
    \/ Call_BN_bn2mpi
    \/ Call_BN_bn2dec
    \/ Call_BN_bn2hex
    \/ Call_BN_print
    \/ Back_BN_bin2bn
    \/ Back_BN_lebin2bn
    \/ Back_BN_mpi2bn
    \/ Back_BN_dec2bn
    \/ Back_BN_hex2bn

Spec == Init /\ [][Next]_vars

\* ================================================= claims on the codecs
\* the bytes of the magnitude, least significant first, without the zero
\* bytes at the most significant end
RECURSIVE TrimHigh(_)
TrimHigh(s) ==
    IF s # <<>> /\ s[Len(s)] = 0 THEN TrimHigh(SubSeq(s, 1, Len(s) - 1)) ELSE s

ValueBytes(x) ==
    TrimHigh([k \in 1..(x.top * BN_BYTES) |->
                 (x.d[((k - 1) \div BN_BYTES) + 1]
                      \div Pow2(8 * ((k - 1) % BN_BYTES))) % 256])

MinLen(x) == Len(ValueBytes(x))

Reverse(s) == [k \in 1..Len(s) |-> s[Len(s) + 1 - k]]

Normalized(x) ==
    /\ x.top <= x.dmax
    /\ x.top > 0 => x.d[x.top] # 0
    /\ x.top = 0 => x.neg = 0

SameValue(x, y) == Significant(x) = Significant(y) /\ x.neg = y.neg

\* C1: decoding the bytes written by BN_bn2bin, BN_bn2binpad (BN_bin2bn)
\* or BN_bn2lebinpad (BN_lebin2bn), for every length the encoder accepts,
\* returns a normalized value with the magnitude of the encoded value.
ByteRoundTrip ==
    (op \in {"BN_bin2bn", "BN_lebin2bn"} /\ env = "none") =>
        /\ ~IsNull(ret)
        /\ Normalized(ret)
        /\ Significant(ret) = Significant(a)

\* a padded little-endian buffer of a two-limb value was decoded
ByteRoundTripSeen ==
    /\ op = "BN_lebin2bn"
    /\ env = "none"
    /\ a.top >= 2
    /\ Len(buf) > MinLen(a)
    /\ MinLen(a) % BN_BYTES # 0

\* C2: BN_bn2binpad and BN_bn2lebinpad with L >= n return L and write
\* exactly L bytes, the n magnitude bytes right-justified after L-n zero
\* bytes (big-endian) or left-justified before them (little-endian); with
\* L < n they return -1 and write no byte.
PaddedEncode ==
    (op \in {"BN_bn2binpad", "BN_bn2lebinpad"} /\ arg >= 0) =>
        LET n == MinLen(a)
            mag == ValueBytes(a)
        IN  IF arg >= n
            THEN /\ ret = arg
                 /\ buf = IF op = "BN_bn2binpad"
                          THEN Zeros(arg - n) \o Reverse(mag)
                          ELSE mag \o Zeros(arg - n)
                 /\ Len(acc.writes) = arg
                 /\ {acc.writes[k] : k \in 1..Len(acc.writes)} = 0..(arg - 1)
            ELSE /\ ret = 0 - 1
                 /\ acc.writes = <<>>
                 /\ buf = Fresh(arg)

\* a value was padded, and a value with garbage beyond top was encoded
PaddedEncodeSeen ==
    /\ op = "BN_bn2binpad"
    /\ ret = arg
    /\ arg > MinLen(a)
    /\ a.dmax > a.top
    /\ a.top >= 1
    /\ a.d[a.dmax] # 0

\* C7: BN_bn2mpi writes the length field n + ext, ext being 1 exactly when
\* bit 7 of the top magnitude byte is set, returns n + ext + 4 with and
\* without a buffer, and BN_mpi2bn of those bytes returns the magnitude and
\* sign of the encoded value.
MpiExt(x) ==
    IF MinLen(x) > 0 /\ ValueBytes(x)[MinLen(x)] >= 128 THEN 1 ELSE 0

MpiRoundTrip ==
    /\ op = "BN_bn2mpi" =>
           /\ ret = MinLen(a) + MpiExt(a) + 4
           /\ made = "BN_bn2mpi" =>
                  /\ Len(buf) = ret
                  /\ SubSeq(buf, 1, 4) = <<0, 0, 0, MinLen(a) + MpiExt(a)>>
    /\ (op = "BN_mpi2bn" /\ env = "none") =>
           /\ ~IsNull(ret)
           /\ SameValue(ret, a)

\* a negative value whose top byte has bit 7 set went through the MPI codec
MpiRoundTripSeen ==
    /\ op = "BN_mpi2bn"
    /\ env = "none"
    /\ a.neg = 1
    /\ a.top >= 2
    /\ MpiExt(a) = 1
    /\ buf[5] = 128

\* C8: BN_dec2bn of the BN_bn2dec text and BN_hex2bn of the BN_bn2hex text
\* give back the value, sign included, and return the length of the text;
\* the text of zero is "0" and a nonzero decimal text has no leading '0'.
Digits(s) == IF s # <<>> /\ Head(s) = Ascii.minus THEN Tail(s) ELSE s

TextRoundTrip ==
    /\ (op \in {"BN_dec2bn", "BN_hex2bn"} /\ env = "none") =>
           /\ ret = strlen(buf)
           /\ ~IsNull(bnp)
           /\ SameValue(bnp, a)
    /\ (op \in {"BN_bn2dec", "BN_bn2hex"} /\ env = "none" /\ a.top = 0) =>
           buf = <<Ascii.zero, 0>>
    /\ (op = "BN_bn2dec" /\ env = "none" /\ a.top > 0) =>
           /\ Digits(CString(buf)) # <<>>
           /\ Head(Digits(CString(buf))) # Ascii.zero

\* a negative value of more than one decimal chunk was parsed back
TextRoundTripSeen ==
    /\ op = "BN_dec2bn"
    /\ env = "none"
    /\ a.neg = 1
    /\ a.top >= 2
    /\ ret > BN_DEC_NUM + 1
    /\ (ret - 1) % BN_DEC_NUM # 0

DropLeadingZeroDigit(s) ==
    LET sign == IF s # <<>> /\ Head(s) = Ascii.minus THEN <<Ascii.minus>>
                ELSE <<>>
        ds == Digits(s)
    IN  sign \o (IF Len(ds) >= 2 /\ Head(ds) = Ascii.zero THEN Tail(ds) ELSE ds)

SameAccess ==
    (op \in {"BN_bn2binpad", "BN_bn2lebinpad"} /\ ret >= 0 /\ a.dmax > 0) =>
        /\ \A b \in Values :
               (b.dmax = a.dmax /\ b.top = a.top /\ arg >= MinLen(b)) =>
                   LET o == bn2binpad(b, Fresh(arg), arg,
                               IF op = "BN_bn2binpad" THEN big ELSE little)
                   IN  o.reads = acc.reads /\ o.writes = acc.writes
        /\ \A k \in 1..Len(acc.reads) : acc.reads[k] < a.dmax
        /\ \A k \in 1..(Len(acc.reads) - 1) :
               acc.reads[k] = a.dmax - 1 => acc.reads[k + 1] = a.dmax - 1

\* a length beyond the capacity was emitted for a value that has a peer of
\* the same shape and another magnitude length
SameAccessSeen ==
    /\ op = "BN_bn2lebinpad"
    /\ ret = arg
    /\ a.dmax > 0
    /\ arg > a.dmax * BN_BYTES
    /\ \E b \in Values :
           /\ b.dmax = a.dmax
           /\ b.top = a.top
           /\ MinLen(b) < MinLen(a)

\* ===================================== decode calls on a caller's input
ByteVals == {0, 1, 128}
MpiVals == {0, 1, 128, 129}
Chars == {Ascii.minus, Ascii.zero, Ascii.x, 55, Ascii.f}

RECURSIVE SeqsUpTo(_, _)
SeqsUpTo(S, n) ==
    IF n = 0 THEN {<<>>}
    ELSE LET shorter == SeqsUpTo(S, n - 1)
         IN  shorter \cup {Append(s, x) : s \in {q \in shorter : Len(q) = n - 1},
                                          x \in S}

\* byte strings, texts, and MPI buffers with a well-formed length field
ByteInputs == SeqsUpTo(ByteVals, MaxBytes)
TextInputs == SeqsUpTo(Chars, MaxText) \ {<<>>}
MpiInputs == {<<0, 0, 0, Len(p)>> \o p : p \in SeqsUpTo(MpiVals, MaxBytes)}

Inputs == ByteInputs \cup TextInputs \cup MpiInputs

INT_MIN == 0 - INT_MAX - 1

\* the length arguments a caller may pass for the buffer s
Lens(s) == {INT_MIN, 0 - 1} \cup 0..Len(s)

\* what an out-of-bounds read may find
WildBytes == {0, 255}

InitDecode ==
    /\ a = BN_new
    /\ buf \in Inputs
    /\ made = "caller"
    /\ bnp = NULL
    /\ was = "null"
    /\ op = "init"
    /\ arg = 0
    /\ env = "none"
    /\ ret = 0
    /\ live = 0
    /\ reads = {}
    /\ acc = NoAcc
    /\ sink = <<>>
    /\ calls = 0

In_BN_bin2bn ==
    /\ calls < MaxCalls
    /\ calls' = calls + 1
    /\ \E len \in Lens(buf), fail \in Fails :
        LET o == BN_bin2bn(buf, len, bnp, fail, 0)
            ok == BN_bin2bn(buf, len, bnp, "none", 0)
        IN  reads' = o.reads /\ Decoded("BN_bin2bn", o, ok, len, fail)

In_BN_lebin2bn ==
    /\ calls < MaxCalls
    /\ calls' = calls + 1
    /\ \E len \in Lens(buf), fail \in Fails, wild \in WildBytes :
        LET o == BN_lebin2bn(buf, len, bnp, fail, wild)
            ok == BN_lebin2bn(buf, len, bnp, "none", wild)
        IN  reads' = o.reads /\ Decoded("BN_lebin2bn", o, ok, len, fail)

In_BN_mpi2bn ==
    /\ calls < MaxCalls
    /\ calls' = calls + 1
    /\ \E n \in Lens(buf), fail \in Fails :
        LET o == BN_mpi2bn(buf, n, bnp, fail, 0)
            ok == BN_mpi2bn(buf, n, bnp, "none", 0)
        IN  reads' = o.reads /\ Decoded("BN_mpi2bn", o, ok, n, fail)

\* arg is 1 for the length probe (bnp == NULL), which leaves the caller's
\* instance alone
In_BN_dec2bn ==
    /\ calls < MaxCalls
    /\ calls' = calls + 1
    /\ \E probe \in BOOLEAN, fail \in Fails :
        /\ reads' = 0..strlen(buf)
        /\ Decoded("BN_dec2bn", BN_dec2bn(probe, bnp, buf, fail),
                   BN_dec2bn(probe, bnp, buf, "none"),
                   IF probe THEN 1 ELSE 0, fail)

In_BN_hex2bn ==
    /\ calls < MaxCalls
    /\ calls' = calls + 1
    /\ \E probe \in BOOLEAN, fail \in Fails :
        /\ reads' = 0..strlen(buf)
        /\ Decoded("BN_hex2bn", BN_hex2bn(probe, bnp, buf, fail),
                   BN_hex2bn(probe, bnp, buf, "none"),
                   IF probe THEN 1 ELSE 0, fail)

In_BN_asc2bn ==
    /\ calls < MaxCalls
    /\ calls' = calls + 1
    /\ \E fail \in Fails :
        /\ reads' = 0..strlen(buf)
        /\ Decoded("BN_asc2bn", BN_asc2bn(bnp, buf, fail),
                   BN_asc2bn(bnp, buf, "none"), 0, fail)

NextDecode ==
    \/ In_BN_bin2bn
    \/ In_BN_lebin2bn
    \/ In_BN_mpi2bn
    \/ In_BN_dec2bn
    \/ In_BN_hex2bn
    \/ In_BN_asc2bn

SpecDecode == InitDecode /\ [][NextDecode]_vars

\* ================================================ claims on the decoders
\* C3: the value left by a successful BN_bin2bn or BN_lebin2bn is
\* non-negative, whatever the input and whatever the instance held before.
DecodedNonNegative ==
    (op \in {"BN_bin2bn", "BN_lebin2bn"} /\ ~IsNull(ret)) =>
        ~BN_is_negative(ret)

\* C4: BN_bin2bn and BN_lebin2bn called with len < 0 return NULL, read no
\* input byte and leave the caller's instance as it was.
NegativeLengthRejected ==
    (op \in {"BN_bin2bn", "BN_lebin2bn"} /\ arg < 0) =>
        /\ IsNull(ret)
        /\ reads = {}
        /\ was \in {"null", "same"}

\* the text, after one optional '-' and an optional 0x or 0X, does not
\* start with a digit of the base chosen
EmptyDigitRun(s) ==
    LET t1 == IF s # <<>> /\ Head(s) = Ascii.minus THEN Tail(s) ELSE s
        hex == /\ Len(t1) >= 2
               /\ t1[1] = Ascii.zero
               /\ t1[2] \in {Ascii.x, Ascii.X}
        t2 == IF hex THEN SubSeq(t1, 3, Len(t1)) ELSE t1
    IN  \/ t2 = <<>>
        \/ (hex /\ ~isxdigit(Head(t2)))
        \/ (~hex /\ ~isdigit(Head(t2)))

\* C5: BN_asc2bn returns 0 for the empty text and for a text with an
\* empty digit run.
AscRejectsEmptyRun ==
    (op = "BN_asc2bn" /\ EmptyDigitRun(CString(buf))) => ret = 0

\* C6: when BN_dec2bn, BN_hex2bn or BN_asc2bn returns 0 and the caller
\* passed an empty placeholder, the placeholder is still empty and no
\* instance the call created remains allocated.
FailureReleases ==
    (/\ op \in {"BN_dec2bn", "BN_hex2bn", "BN_asc2bn"}
     /\ arg = 0
     /\ ret = 0
     /\ was = "null") =>
        /\ IsNull(bnp)
        /\ live = 0

====
